---- MODULE Spec2Model ----
(***************************************************************************)
(* Conventional-commit enforcement: the GitHub Action entry points         *)
(* src/src/index.js (push and pull_request validation of commit lists),    *)
(* src/unnamed/part_000 (pull_request validation of the PR title) and the  *)
(* command-line script src/unnamed/part_004.                               *)
(*                                                                         *)
(* Text is modelled as a sequence of one-character strings, so that        *)
(* splitting, trimming, joining and the header match are computed.         *)
(***************************************************************************)
EXTENDS Integers, Sequences, FiniteSets, TLC

\* ------------------------------------------------------------------ bounds

\* Longest commit list a commit source returns in the model.
MaxCommits == 2

\* ------------------------------------------------------------ text helpers

Lower == {"a", "b", "c", "d", "e", "f", "g", "h", "i", "j", "k", "l", "m",
          "n", "o", "p", "q", "r", "s", "t", "u", "v", "w", "x", "y", "z"}
Upper == {"A", "B", "C", "D", "E", "F", "G", "H", "I", "J", "K", "L", "M",
          "N", "O", "P", "Q", "R", "S", "T", "U", "V", "W", "X", "Y", "Z"}
Digit == {"0", "1", "2", "3", "4", "5", "6", "7", "8", "9"}

\* \w of a JavaScript regular expression.
WordChars == Lower \cup Upper \cup Digit \cup {"_"}

\* [\w$.\-*/ ] : the characters the library's header pattern allows in a scope.
ScopeChars == WordChars \cup {"$", ".", "-", "*", "/", " "}

\* White space removed by String.prototype.trim (those the model's texts use).
WhiteSpace == {" ", "\t", "\n", "\r"}

\* The characters stripped by the parser's trimOffNewlines.
NewLines == {"\n", "\r"}

SetMin(S) == CHOOSE m \in S : \A n \in S : m <= n
SetMax(S) == CHOOSE m \in S : \A n \in S : m >= n

\* s with the leading and trailing characters of `drop` removed.
Strip(s, drop) ==
  LET keep == {i \in 1..Len(s) : s[i] \notin drop}
  IN  IF keep = {} THEN <<>> ELSE SubSeq(s, SetMin(keep), SetMax(keep))

\* String.prototype.trim
Trim(s) == Strip(s, WhiteSpace)

\* Index of the first occurrence of character c in s, 0 when there is none.
IndexOf(s, c) ==
  LET at == {i \in 1..Len(s) : s[i] = c}
  IN  IF at = {} THEN 0 ELSE SetMin(at)

\* String.prototype.split on a one-character separator.
RECURSIVE Split(_, _)
Split(s, sep) ==
  LET k == IndexOf(s, sep)
  IN  IF k = 0 THEN <<s>>
      ELSE <<SubSeq(s, 1, k - 1)>> \o Split(SubSeq(s, k + 1, Len(s)), sep)

\* Array.prototype.join
RECURSIVE Join(_, _)
Join(parts, sep) ==
  IF Len(parts) = 0 THEN <<>>
  ELSE IF Len(parts) = 1 THEN parts[1]
  ELSE parts[1] \o sep \o Join(Tail(parts), sep)

\* message.split("\n")[0] : the header text reported for a message.
FirstLine(message) == Split(message, "\n")[1]

\* Array.prototype.includes on an array of texts.
Includes(arr, x) == \E i \in 1..Len(arr) : arr[i] = x

\* ------------------------------------------- conventional-commits-parser

\* An absent part of a parsed commit.  The parser stores `match || null`,
\* and the callers test parts with `!`, so null and "" are one falsy value.
Null == <<>>

\* sync(raw) starts with: if (!raw || !raw.trim()) throw new
\* TypeError("Expected a raw commit").
ParserThrows(raw) == Trim(raw) = <<>>

ParserErrorMessage == "Expected a raw commit"

\* ParserHeader that takes the last line of the message.
ParserHeaderLastLine(raw) ==
  LET lines == Split(Strip(raw, NewLines), "\n")
  IN  lines[Len(lines)]

\* The line the parser matches: the first line of the message once its
\* leading and trailing newlines are trimmed off.
ParserHeader(raw) == Split(Strip(raw, NewLines), "\n")[1]

\* header.match(/^(\w*)(?:\(([\w$.\-*/ ]*)\))?: (.*)$/), the library's
\* default headerPattern with headerCorrespondence type, scope, subject.
\* Every group is deterministic: the character after \w* and the character
\* after the scope class are outside those classes.
MatchHeader(h) ==
  LET nonWord  == {i \in 1..Len(h) : h[i] \notin WordChars}
      p        == IF nonWord = {} THEN Len(h) + 1 ELSE SetMin(nonWord)
      nonScope == {i \in (p + 1)..Len(h) : h[i] \notin ScopeChars}
      hasScope == /\ p <= Len(h)
                  /\ h[p] = "("
                  /\ nonScope # {}
                  /\ h[SetMin(nonScope)] = ")"
      q        == IF hasScope THEN SetMin(nonScope) + 1 ELSE p
      matched  == /\ q + 1 <= Len(h)
                  /\ h[q] = ":"
                  /\ h[q + 1] = " "
  IN  IF matched
      THEN [type    |-> SubSeq(h, 1, p - 1),
            scope   |-> IF hasScope THEN SubSeq(h, p + 1, q - 2) ELSE Null,
            subject |-> SubSeq(h, q + 2, Len(h))]
      ELSE [type |-> Null, scope |-> Null, subject |-> Null]

\* conventionalCommitsParser.sync(message), for a message it does not reject.
ParseSync(message) == MatchHeader(ParserHeader(message))

\* conventionalCommitsParser(message): without .sync the call returns the
\* parser's transform stream, an object with no type and no subject.
ParseStream(message) == [type |-> Null, scope |-> Null, subject |-> Null]

\* ------------------------------------------------------------------ inputs

\* allowed-types as configured: unset (core.getInput gives ""), a plain
\* list, a list with spaces, a list without a type.
DefaultAllowedTypes ==
  <<"f", "e", "a", "t", ",", "f", "i", "x", ",", "d", "o", "c", "s", ",",
    "s", "t", "y", "l", "e", ",", "r", "e", "f", "a", "c", "t", "o", "r", ",",
    "p", "e", "r", "f", ",", "t", "e", "s", "t", ",", "b", "u", "i", "l", "d",
    ",", "c", "i", ",", "c", "h", "o", "r", "e", ",", "r", "e", "v", "e", "r",
    "t">>
AllowedUnset   == <<>>
AllowedFeatFix == <<"f", "e", "a", "t", ",", "f", "i", "x">>
AllowedSpaced  ==
  <<"f", "e", "a", "t", ",", " ", "f", "i", "x", ",", " ", "d", "o", "c", "s", " ">>
\* A configured text that holds a separator and no type.
AllowedBlank   == <<",">>
AllowedInputs  == {AllowedUnset, AllowedFeatFix, AllowedSpaced, AllowedBlank}

\* Commit messages and PR titles the commit source may hand over.
MsgFeat        == <<"f", "e", "a", "t", ":", " ", "x">>
MsgFeatUpper   == <<"F", "e", "a", "t", ":", " ", "x">>
MsgDocs        == <<"d", "o", "c", "s", ":", " ", "y", "\n", "\n", "b">>
MsgNoSep       == <<"w", "i", "p", "\n", "b">>
MsgFooter      == <<"f", "i", "x", ":", " ", "z", "\n", "\n", "b">>
MsgTypeOnly    == <<"f", "e", "a", "t", ":", " ">>
MsgSubjectOnly == <<":", " ", "x">>
MsgEmpty       == <<>>
MsgBreaking    == <<"f", "e", "a", "t", "(", "a", ")", "!", ":", " ", "x">>
MsgBlankSubject == <<"f", "e", "a", "t", ":", " ", " ">>
MsgNestedScope == <<"f", "e", "a", "t", "(", "a", "(", "b", ")", ")", ":", " ", "x">>
Messages ==
  {MsgFeat, MsgFeatUpper, MsgDocs, MsgNoSep, MsgFooter, MsgTypeOnly,
   MsgSubjectOnly, MsgEmpty, MsgBreaking, MsgBlankSubject, MsgNestedScope}

\* The sha of the k-th commit of a list.
Sha(k) == "sha" \o ToString(k)

\* The commit lists of compareCommits / listCommits / git log: up to
\* MaxCommits commits, each with its own sha.
CommitLists ==
  UNION {{[k \in 1..n |-> [sha |-> Sha(k), message |-> f[k]]] :
            f \in [1..n -> Messages]} : n \in 0..MaxCommits}

Branches == {"main", "dev"}

\* github.context: the event and, for a push, the pushed ref.
Contexts ==
  {[eventName |-> "push", ref |-> "refs/heads/main"],
   [eventName |-> "push", ref |-> "refs/heads/dev"],
   [eventName |-> "pull_request", ref |-> "refs/pull/1/merge"],
   [eventName |-> "issues", ref |-> "refs/heads/main"]}

\* core.getInput of every input; token FALSE is a missing required token,
\* "" and <<>> are unset optional inputs.
InputSets ==
  [token            : BOOLEAN,
   targetBranch     : {"", "dev"},
   allowedTypes     : AllowedInputs,
   strictMode       : BOOLEAN,
   commentOnSuccess : BOOLEAN]

ApiErrorMessage == "API Error"
TokenErrorMessage == "Input required and not supplied: token"

\* ------------------------------------------------------------------- state

VARIABLES
  prog,               \* the entry point run: "index", "title" or "script"
  inputs,             \* the action's inputs
  context,            \* github.context
  pc,                 \* the position of run / of the script
  targetBranch,       \* run: const targetBranch
  allowedTypesArray,  \* run: const allowedTypesArray
  pr,                 \* the pull request returned by pulls.get
  commits,            \* the commit list returned by the commit source
  processed,          \* how many messages the validation loop has classified
  hasInvalidCommits,  \* let hasInvalidCommits
  invalidCommits,     \* const invalidCommits = []
  validCommits,       \* const validCommits = []
  outputs,            \* core.setOutput: output name -> value, for the outputs set
  failed,             \* the core.setFailed calls, in order
  comments,           \* the issues.createComment calls that succeeded, in order
  stderr,             \* the script's console.error headlines, in order
  exitCode            \* the script's process.exit code, -1 while it runs

vars ==
  <<prog, inputs, context, pc, targetBranch, allowedTypesArray, pr, commits,
    processed, hasInvalidCommits, invalidCommits, validCommits, outputs,
    failed, comments, stderr, exitCode>>

NoPr == [base |-> "", title |-> <<>>]

\* Init with an invalid list left over from an earlier run.
InitStaleInvalidList ==
  /\ prog \in {"index", "title", "script"}
  /\ inputs \in InputSets
  /\ prog # "index" => ~inputs.strictMode
  /\ prog = "script" => inputs = [token |-> TRUE, targetBranch |-> "",
                                  allowedTypes |-> AllowedUnset,
                                  strictMode |-> FALSE,
                                  commentOnSuccess |-> FALSE]
  /\ context \in Contexts
  /\ prog = "script" => context.eventName = "pull_request"
  /\ pc = "run"
  /\ targetBranch = ""
  /\ allowedTypesArray = <<>>
  /\ pr = NoPr
  /\ commits = <<>>
  /\ processed = 0
  /\ hasInvalidCommits \in BOOLEAN
  /\ invalidCommits \in
       {<<>>, <<[sha |-> "sha0", message |-> MsgNoSep, fullMessage |-> MsgNoSep]>>}
  /\ validCommits = <<>>
  /\ outputs = <<>>
  /\ failed = <<>>
  /\ comments = <<>>
  /\ stderr = <<>>
  /\ exitCode = -1

\* The state before run() is called.
Init ==
  /\ prog \in {"index", "title", "script"}
  /\ inputs \in InputSets
  /\ prog # "index" => ~inputs.strictMode
  /\ prog = "script" => inputs = [token |-> TRUE, targetBranch |-> "",
                                  allowedTypes |-> AllowedUnset,
                                  strictMode |-> FALSE,
                                  commentOnSuccess |-> FALSE]
  /\ context \in Contexts
  /\ prog = "script" => context.eventName = "pull_request"
  /\ pc = "run"
  /\ targetBranch = ""
  /\ allowedTypesArray = <<>>
  /\ pr = NoPr
  /\ commits = <<>>
  /\ processed = 0
  /\ hasInvalidCommits = FALSE
  /\ invalidCommits = <<>>
  /\ validCommits = <<>>
  /\ outputs = <<>>
  /\ failed = <<>>
  /\ comments = <<>>
  /\ stderr = <<>>
  /\ exitCode = -1

\* ------------------------------------------------------- shared operations

\* core.setOutput(name, value)
SetOutput(o, name, value) == (name :> value) @@ o

\* catch (error) { core.setFailed(`Action failed: ${error.message}`) }
ActionFailed(message) == [text |-> "Action failed: " \o message, arg |-> <<>>]

\* AllowedTypesArray that takes a text without a type for an unset one.
AllowedTypesArrayBlankIsUnset(configured) ==
  LET blank == \A i \in 1..Len(configured) : configured[i] \in {",", " "}
      text  == IF blank THEN DefaultAllowedTypes ELSE configured
      parts == Split(text, ",")
  IN  [k \in 1..Len(parts) |-> Trim(parts[k])]

\* AllowedTypesArray whose default list is feat, fix.
AllowedTypesArrayDefaultsFeatFix(configured) ==
  LET text  == IF configured = <<>> THEN AllowedFeatFix ELSE configured
      parts == Split(text, ",")
  IN  [k \in 1..Len(parts) |-> Trim(parts[k])]

\* AllowedTypesArray without the trim of the entries.
AllowedTypesArrayNoTrim(configured) ==
  LET text == IF configured = <<>> THEN DefaultAllowedTypes ELSE configured
  IN  Split(text, ",")

\* allowedTypes.split(",").map((type) => type.trim()), of the configured
\* text or, when that is unset, of the default list.
AllowedTypesArray(configured) ==
  LET text  == IF configured = <<>> THEN DefaultAllowedTypes ELSE configured
      parts == Split(text, ",")
  IN  [k \in 1..Len(parts) |-> Trim(parts[k])]

\* NotConventional with && in place of ||.
NotConventionalNeedsBoth(parsed) == parsed.type = Null /\ parsed.subject = Null

\* !parsed.type || !parsed.subject
NotConventional(parsed) == parsed.type = Null \/ parsed.subject = Null

\* TypeNotAllowed that looks at the first allowed type only.
TypeNotAllowedFirstOnly(allowedTypes, parsed) == allowedTypes[1] # parsed.type

\* !allowedTypes.includes(parsed.type)
TypeNotAllowed(allowedTypes, parsed) == ~Includes(allowedTypes, parsed.type)

\* `Type '${parsed.type}' is not allowed. Allowed types: ${allowedTypes.join(", ")}`
TypeReason(allowedTypes, parsed) ==
  [text    |-> "Type is not allowed. Allowed types:",
   type    |-> parsed.type,
   allowed |-> Join(allowedTypes, <<",", " ">>)]

\* FormatEntry that reports the whole message as the header text.
FormatEntryWholeMessage(commit) ==
  [sha         |-> commit.sha,
   message     |-> commit.message,
   fullMessage |-> commit.message]

\* invalidCommits.push({sha, message, fullMessage}) of a format failure.
FormatEntry(commit) ==
  [sha         |-> commit.sha,
   message     |-> FirstLine(commit.message),
   fullMessage |-> commit.message]

\* invalidCommits.push({sha, message, fullMessage, reason}) of a disallowed type.
TypeEntry(commit, allowedTypes, parsed) ==
  [sha         |-> commit.sha,
   message     |-> FirstLine(commit.message),
   fullMessage |-> commit.message,
   reason      |-> TypeReason(allowedTypes, parsed)]

\* validCommits.push({sha, message, type, scope, subject})
ValidEntry(commit, parsed) ==
  [sha     |-> commit.sha,
   message |-> FirstLine(commit.message),
   type    |-> parsed.type,
   scope   |-> parsed.scope,
   subject |-> parsed.subject]

\* LoopBody that does not raise hasInvalidCommits for a disallowed type.
LoopBodyForgetsFlag(commit, allowedTypes, acc) ==
  LET parsed == ParseSync(commit.message)
  IN  IF NotConventional(parsed)
      THEN [hasInvalid |-> TRUE,
            invalid    |-> Append(acc.invalid, FormatEntry(commit)),
            valid      |-> acc.valid]
      ELSE IF TypeNotAllowed(allowedTypes, parsed)
      THEN [hasInvalid |-> acc.hasInvalid,
            invalid    |-> Append(acc.invalid, TypeEntry(commit, allowedTypes, parsed)),
            valid      |-> acc.valid]
      ELSE [hasInvalid |-> acc.hasInvalid,
            invalid    |-> acc.invalid,
            valid      |-> Append(acc.valid, ValidEntry(commit, parsed))]

\* LoopBody that puts a new invalid entry in front of the list.
LoopBodyPrepends(commit, allowedTypes, acc) ==
  LET parsed == ParseSync(commit.message)
  IN  IF NotConventional(parsed)
      THEN [hasInvalid |-> TRUE,
            invalid    |-> <<FormatEntry(commit)>> \o acc.invalid,
            valid      |-> acc.valid]
      ELSE IF TypeNotAllowed(allowedTypes, parsed)
      THEN [hasInvalid |-> TRUE,
            invalid    |-> <<TypeEntry(commit, allowedTypes, parsed)>> \o acc.invalid,
            valid      |-> acc.valid]
      ELSE [hasInvalid |-> acc.hasInvalid,
            invalid    |-> acc.invalid,
            valid      |-> Append(acc.valid, ValidEntry(commit, parsed))]

\* LoopBody that does not record a valid commit.
LoopBodyDropsValid(commit, allowedTypes, acc) ==
  LET parsed == ParseSync(commit.message)
  IN  IF NotConventional(parsed)
      THEN [hasInvalid |-> TRUE,
            invalid    |-> Append(acc.invalid, FormatEntry(commit)),
            valid      |-> acc.valid]
      ELSE IF TypeNotAllowed(allowedTypes, parsed)
      THEN [hasInvalid |-> TRUE,
            invalid    |-> Append(acc.invalid, TypeEntry(commit, allowedTypes, parsed)),
            valid      |-> acc.valid]
      ELSE acc

\* One iteration of `for (const commit of commits)`, after the parse: the
\* new values of hasInvalidCommits, invalidCommits and validCommits.
LoopBody(commit, allowedTypes, acc) ==
  LET parsed == ParseSync(commit.message)
  IN  IF NotConventional(parsed)
      THEN [hasInvalid |-> TRUE,
            invalid    |-> Append(acc.invalid, FormatEntry(commit)),
            valid      |-> acc.valid]
      ELSE IF TypeNotAllowed(allowedTypes, parsed)
      THEN [hasInvalid |-> TRUE,
            invalid    |-> Append(acc.invalid, TypeEntry(commit, allowedTypes, parsed)),
            valid      |-> acc.valid]
      ELSE [hasInvalid |-> acc.hasInvalid,
            invalid    |-> acc.invalid,
            valid      |-> Append(acc.valid, ValidEntry(commit, parsed))]

Acc == [hasInvalid |-> hasInvalidCommits, invalid |-> invalidCommits,
        valid |-> validCommits]

\* The three outputs set after the loop.
VerdictOutputs(o, hasInvalid, total, invalid) ==
  SetOutput(SetOutput(SetOutput(o,
    "valid", IF hasInvalid THEN "false" ELSE "true"),
    "total-commits", ToString(total)),
    "invalid-commits", invalid)

\* The outputs set when the commit source returns no commits.
NoCommitsOutputs(o) ==
  SetOutput(SetOutput(o, "valid", "true"), "total-commits", "0")

MergeFailedMessage ==
  [text |-> "Conventional commits validation failed on merge to target branch!",
   arg  |-> <<>>]
PrFailedMessage ==
  [text |-> "Conventional commits validation failed! This PR cannot be merged to the protected branch.",
   arg  |-> <<>>]

\* Throw whose catch block reports a failed validation.
ThrowReportsValidation(message) ==
  /\ failed' = Append(failed, PrFailedMessage)
  /\ pc' = "done"

\* Throw whose catch block does not mark the run failed.
ThrowSilently(message) ==
  /\ failed' = failed
  /\ pc' = "done"

\* run() ends by throwing `message` into its catch block.
Throw(message) ==
  /\ failed' = Append(failed, ActionFailed(message))
  /\ pc' = "done"

\* ------------------------------------------------- src/src/index.js: run

\* Run that validates a push to any branch.
RunValidatesEveryPush ==
  /\ prog = "index"
  /\ pc = "run"
  /\ UNCHANGED <<prog, inputs, context, pr, commits, processed,
                 hasInvalidCommits, invalidCommits, validCommits, outputs,
                 comments, stderr, exitCode>>
  /\ IF ~inputs.token
     THEN /\ Throw(TokenErrorMessage)
          /\ UNCHANGED <<targetBranch, allowedTypesArray>>
     ELSE /\ targetBranch' =
               IF inputs.targetBranch = "" THEN "main" ELSE inputs.targetBranch
          /\ allowedTypesArray' = AllowedTypesArray(inputs.allowedTypes)
          /\ failed' = failed
          /\ pc' = IF context.eventName = "push"
                   THEN "compareCommits"
                   ELSE IF context.eventName = "pull_request"
                   THEN "pullsGet"
                   ELSE "done"

\* run(), from the reading of the inputs to the first await.
Run ==
  /\ prog = "index"
  /\ pc = "run"
  /\ UNCHANGED <<prog, inputs, context, pr, commits, processed,
                 hasInvalidCommits, invalidCommits, validCommits, outputs,
                 comments, stderr, exitCode>>
  /\ IF ~inputs.token
     THEN /\ Throw(TokenErrorMessage)
          /\ UNCHANGED <<targetBranch, allowedTypesArray>>
     ELSE /\ targetBranch' =
               IF inputs.targetBranch = "" THEN "main" ELSE inputs.targetBranch
          /\ allowedTypesArray' = AllowedTypesArray(inputs.allowedTypes)
          /\ failed' = failed
          /\ pc' = IF /\ context.eventName = "push"
                      /\ context.ref = "refs/heads/" \o targetBranch'
                   THEN "compareCommits"
                   ELSE IF context.eventName = "pull_request"
                   THEN "pullsGet"
                   ELSE "done"

\* The commit source answers: it rejects, or it resolves with a commit list.
\* An empty list ends the validation with two outputs; any other list
\* starts the loop.
ReceiveCommits(at, loop) ==
  /\ pc = at
  /\ UNCHANGED <<prog, inputs, context, targetBranch, allowedTypesArray, pr,
                 processed, hasInvalidCommits, invalidCommits, validCommits,
                 comments, stderr, exitCode>>
  /\ \/ /\ Throw(ApiErrorMessage)
        /\ UNCHANGED <<commits, outputs>>
     \/ \E list \in CommitLists :
          /\ commits' = list
          /\ failed' = failed
          /\ IF Len(list) = 0
             THEN /\ outputs' = NoCommitsOutputs(outputs)
                  /\ pc' = "done"
             ELSE /\ outputs' = outputs
                  /\ pc' = loop

\* validateMergeCommits: await octokit.rest.repos.compareCommits
CompareCommits == ReceiveCommits("compareCommits", "mergeLoop")

\* One iteration of the validation loop; the parser's exception leaves the
\* loop and run's try block.
LoopStep(at) ==
  /\ pc = at
  /\ processed < Len(commits)
  /\ UNCHANGED <<prog, inputs, context, targetBranch, allowedTypesArray, pr,
                 commits, outputs, comments, stderr, exitCode>>
  /\ LET commit == commits[processed + 1]
     IN  IF ParserThrows(commit.message)
         THEN /\ Throw(ParserErrorMessage)
              /\ UNCHANGED <<processed, hasInvalidCommits, invalidCommits,
                             validCommits>>
         ELSE LET acc == LoopBody(commit, allowedTypesArray, Acc)
              IN  /\ hasInvalidCommits' = acc.hasInvalid
                  /\ invalidCommits' = acc.invalid
                  /\ validCommits' = acc.valid
                  /\ processed' = processed + 1
                  /\ UNCHANGED <<failed, pc>>

\* validateMergeCommits: for (const commit of commits.commits)
MergeLoop == LoopStep("mergeLoop")

\* validateMergeCommits, after the loop: the outputs and the result.
MergeOutputs ==
  /\ pc = "mergeLoop"
  /\ processed = Len(commits)
  /\ outputs' = VerdictOutputs(outputs, hasInvalidCommits, Len(commits),
                               invalidCommits)
  /\ failed' = IF hasInvalidCommits
               THEN Append(failed, MergeFailedMessage) ELSE failed
  /\ pc' = "done"
  /\ UNCHANGED <<prog, inputs, context, targetBranch, allowedTypesArray, pr,
                 commits, processed, hasInvalidCommits, invalidCommits,
                 validCommits, comments, stderr, exitCode>>

\* PullsGet without the check of the base branch.
PullsGetIgnoresBase ==
  /\ prog = "index"
  /\ pc = "pullsGet"
  /\ UNCHANGED <<prog, inputs, context, targetBranch, allowedTypesArray,
                 commits, processed, hasInvalidCommits, invalidCommits,
                 validCommits, outputs, comments, stderr, exitCode>>
  /\ \/ /\ Throw(ApiErrorMessage)
        /\ pr' = pr
     \/ \E base \in Branches :
          /\ pr' = [base |-> base, title |-> <<>>]
          /\ failed' = failed
          /\ pc' = "listCommits"

\* validatePRMergeCommit: await octokit.rest.pulls.get, and the check that
\* the PR targets the protected branch.
PullsGet ==
  /\ prog = "index"
  /\ pc = "pullsGet"
  /\ UNCHANGED <<prog, inputs, context, targetBranch, allowedTypesArray,
                 commits, processed, hasInvalidCommits, invalidCommits,
                 validCommits, outputs, comments, stderr, exitCode>>
  /\ \/ /\ Throw(ApiErrorMessage)
        /\ pr' = pr
     \/ \E base \in Branches :
          /\ pr' = [base |-> base, title |-> <<>>]
          /\ failed' = failed
          /\ pc' = IF base # targetBranch THEN "done" ELSE "listCommits"

\* validatePRMergeCommit: await octokit.rest.pulls.listCommits
ListCommits == ReceiveCommits("listCommits", "prLoop")

\* validatePRMergeCommit: for (const commit of commits)
PrLoop == LoopStep("prLoop")

\* PrOutputs that always goes on to create a comment.
PrOutputsAlwaysComments ==
  /\ pc = "prLoop"
  /\ processed = Len(commits)
  /\ outputs' = VerdictOutputs(outputs, hasInvalidCommits, Len(commits),
                               invalidCommits)
  /\ pc' = "createComment"
  /\ UNCHANGED <<prog, inputs, context, targetBranch, allowedTypesArray, pr,
                 commits, processed, hasInvalidCommits, invalidCommits,
                 validCommits, failed, comments, stderr, exitCode>>

\* validatePRMergeCommit, after the loop: the outputs, and whether a comment
\* is to be created.
PrOutputs ==
  /\ pc = "prLoop"
  /\ processed = Len(commits)
  /\ outputs' = VerdictOutputs(outputs, hasInvalidCommits, Len(commits),
                               invalidCommits)
  /\ pc' = IF hasInvalidCommits \/ inputs.commentOnSuccess
           THEN "createComment" ELSE "done"
  /\ UNCHANGED <<prog, inputs, context, targetBranch, allowedTypesArray, pr,
                 commits, processed, hasInvalidCommits, invalidCommits,
                 validCommits, failed, comments, stderr, exitCode>>

\* CreateComment that marks the run failed after every comment.
CreateCommentAlwaysFails ==
  /\ pc = "createComment"
  /\ UNCHANGED <<prog, inputs, context, targetBranch, allowedTypesArray, pr,
                 commits, processed, hasInvalidCommits, invalidCommits,
                 validCommits, outputs, stderr, exitCode>>
  /\ \/ /\ Throw(ApiErrorMessage)
        /\ comments' = comments
     \/ /\ comments' = Append(comments,
                              IF hasInvalidCommits THEN "failure" ELSE "success")
        /\ failed' = Append(failed, PrFailedMessage)
        /\ pc' = "done"

\* validatePRMergeCommit: await octokit.rest.issues.createComment, then the
\* result.
CreateComment ==
  /\ pc = "createComment"
  /\ UNCHANGED <<prog, inputs, context, targetBranch, allowedTypesArray, pr,
                 commits, processed, hasInvalidCommits, invalidCommits,
                 validCommits, outputs, stderr, exitCode>>
  /\ \/ /\ Throw(ApiErrorMessage)
        /\ comments' = comments
     \/ /\ comments' = Append(comments,
                              IF hasInvalidCommits THEN "failure" ELSE "success")
        /\ failed' = IF hasInvalidCommits
                     THEN Append(failed, PrFailedMessage) ELSE failed
        /\ pc' = "done"

\* -------------------------------------------- src/unnamed/part_000: run

TitleFormatReason ==
  [text |-> "PR title does not follow conventional commit format"]

TitleFormatFailedMessage(title) ==
  [text |-> "PR title does not follow conventional commit format!",
   arg  |-> title]
TitleTypeFailedMessage(title) ==
  [text |-> "PR title uses disallowed type!", arg |-> title]

\* The outputs of a PR title that is no conventional commit.
TitleFormatOutputs(o, title) ==
  SetOutput(SetOutput(o, "valid", "false"),
            "invalid-commits",
            <<[title |-> title, reason |-> TitleFormatReason]>>)

\* The outputs of a PR title whose type is not allowed.
TitleTypeOutputs(o, title, allowedTypes, parsed) ==
  SetOutput(SetOutput(o, "valid", "false"),
            "invalid-commits",
            <<[title |-> title, reason |-> TypeReason(allowedTypes, parsed)]>>)

\* The outputs of a valid PR title.
TitleValidOutputs(o) ==
  SetOutput(SetOutput(o, "valid", "true"), "total-commits", "1")

\* run(), from the reading of the inputs to the first await.
TitleRun ==
  /\ prog = "title"
  /\ pc = "run"
  /\ UNCHANGED <<prog, inputs, context, pr, commits, processed,
                 hasInvalidCommits, invalidCommits, validCommits, outputs,
                 comments, stderr, exitCode>>
  /\ IF ~inputs.token
     THEN /\ Throw(TokenErrorMessage)
          /\ UNCHANGED <<targetBranch, allowedTypesArray>>
     ELSE /\ targetBranch' =
               IF inputs.targetBranch = "" THEN "main" ELSE inputs.targetBranch
          /\ allowedTypesArray' = AllowedTypesArray(inputs.allowedTypes)
          /\ failed' = failed
          /\ pc' = IF context.eventName = "pull_request"
                   THEN "pullsGet" ELSE "done"

\* validatePRTitle: await octokit.rest.pulls.get, the check of the base
\* branch, the parse of the title and the outputs, up to the next await.
TitlePullsGet ==
  /\ prog = "title"
  /\ pc = "pullsGet"
  /\ UNCHANGED <<prog, inputs, context, targetBranch, allowedTypesArray,
                 commits, hasInvalidCommits, invalidCommits, validCommits,
                 comments, stderr, exitCode>>
  /\ \/ /\ Throw(ApiErrorMessage)
        /\ UNCHANGED <<pr, outputs, processed>>
     \/ \E base \in Branches, title \in Messages :
          /\ pr' = [base |-> base, title |-> title]
          /\ IF base # targetBranch
             THEN /\ pc' = "done"
                  /\ UNCHANGED <<outputs, failed, processed>>
             ELSE IF ParserThrows(title)
             THEN /\ Throw(ParserErrorMessage)
                  /\ UNCHANGED <<outputs, processed>>
             ELSE LET parsed == ParseSync(title)
                  IN  /\ failed' = failed
                      /\ processed' = 1
                      /\ IF NotConventional(parsed)
                         THEN /\ outputs' = TitleFormatOutputs(outputs, title)
                              /\ pc' = "formatComment"
                         ELSE IF TypeNotAllowed(allowedTypesArray, parsed)
                         THEN /\ outputs' = TitleTypeOutputs(outputs, title,
                                              allowedTypesArray, parsed)
                              /\ pc' = "typeComment"
                         ELSE /\ outputs' = TitleValidOutputs(outputs)
                              /\ pc' = IF inputs.commentOnSuccess
                                       THEN "successComment" ELSE "done"

\* await octokit.rest.issues.createComment of validatePRTitle, and what
\* follows it: `result` is the setFailed message, or <<>> after a success
\* comment.
TitleComment(at, kind, result) ==
  /\ pc = at
  /\ UNCHANGED <<prog, inputs, context, targetBranch, allowedTypesArray, pr,
                 commits, processed, hasInvalidCommits, invalidCommits,
                 validCommits, outputs, stderr, exitCode>>
  /\ \/ /\ Throw(ApiErrorMessage)
        /\ comments' = comments
     \/ /\ comments' = Append(comments, kind)
        /\ failed' = failed \o result
        /\ pc' = "done"

\* The comment and setFailed of a title that is no conventional commit.
TitleFormatComment ==
  TitleComment("formatComment", "failure",
               <<TitleFormatFailedMessage(pr.title)>>)

\* The comment and setFailed of a title with a disallowed type.
TitleTypeComment ==
  TitleComment("typeComment", "failure", <<TitleTypeFailedMessage(pr.title)>>)

\* The success comment, when comment-on-success is set.
TitleSuccessComment == TitleComment("successComment", "success", <<>>)

\* --------------------------------------------- src/unnamed/part_004: script

ScriptErrorHeadline == "Error validating commits:"
ScriptFailedHeadline == "Conventional commits validation failed!"

\* The line `git log --oneline` prints for a commit, split into its hash
\* and its message.
ScriptLine(commit) ==
  [hash |-> commit.sha, message |-> FirstLine(commit.message)]

\* One iteration of `for (const line of commitLines)`.
ScriptLoopBody(line, acc) ==
  LET parsed == ParseStream(line.message)
  IN  IF NotConventional(parsed)
      THEN [hasInvalid |-> TRUE,
            invalid    |-> Append(acc.invalid, line),
            valid      |-> acc.valid]
      ELSE acc

\* execSync("git log --oneline base..head"): it throws, or it returns the
\* commit lines; no line ends the script with exit code 0.
ScriptGitLog ==
  /\ prog = "script"
  /\ pc = "run"
  /\ UNCHANGED <<prog, inputs, context, targetBranch, allowedTypesArray, pr,
                 processed, hasInvalidCommits, invalidCommits, validCommits,
                 outputs, failed, comments>>
  /\ \/ /\ stderr' = Append(stderr, ScriptErrorHeadline)
        /\ exitCode' = 1
        /\ pc' = "done"
        /\ commits' = commits
     \/ \E list \in CommitLists :
          /\ commits' = list
          /\ stderr' = stderr
          /\ IF Len(list) = 0
             THEN exitCode' = 0 /\ pc' = "done"
             ELSE exitCode' = exitCode /\ pc' = "scriptLoop"

\* for (const line of commitLines)
ScriptLoop ==
  /\ pc = "scriptLoop"
  /\ processed < Len(commits)
  /\ LET acc == ScriptLoopBody(ScriptLine(commits[processed + 1]), Acc)
     IN  /\ hasInvalidCommits' = acc.hasInvalid
         /\ invalidCommits' = acc.invalid
         /\ validCommits' = acc.valid
  /\ processed' = processed + 1
  /\ UNCHANGED <<prog, inputs, context, pc, targetBranch, allowedTypesArray,
                 pr, commits, outputs, failed, comments, stderr, exitCode>>

\* The script's result after the loop.
ScriptFinish ==
  /\ pc = "scriptLoop"
  /\ processed = Len(commits)
  /\ stderr' = IF hasInvalidCommits
               THEN Append(stderr, ScriptFailedHeadline) ELSE stderr
  /\ exitCode' = IF hasInvalidCommits THEN 1 ELSE 0
  /\ pc' = "done"
  /\ UNCHANGED <<prog, inputs, context, targetBranch, allowedTypesArray, pr,
                 commits, processed, hasInvalidCommits, invalidCommits,
                 validCommits, outputs, failed, comments>>

\* ------------------------------------ two runs of src/src/index.js at once
\*
\* Two calls of run() in flight together, their steps interleaved.  In this
\* specification every variable of a run is a function from the run to its
\* value; the API calls resolve (their rejection is part of Spec), the pull
\* request targets the protected branch and comment-on-success is unset.

\* Longest commit list a commit source returns to one of the two runs.
MaxTwoCommits == 1

Runs == {1, 2}

TwoMessages == {MsgFeat, MsgNoSep, MsgDocs}

TwoCommitLists ==
  UNION {{[k \in 1..n |-> [sha |-> Sha(k), message |-> f[k]]] :
            f \in [1..n -> TwoMessages]} : n \in 0..MaxTwoCommits}

TwoContexts ==
  {[eventName |-> "push", ref |-> "refs/heads/main"],
   [eventName |-> "pull_request", ref |-> "refs/pull/1/merge"]}

TwoInputSets ==
  [token            : {TRUE},
   targetBranch     : {""},
   allowedTypes     : {AllowedUnset, AllowedFeatFix},
   strictMode       : BOOLEAN,
   commentOnSuccess : {FALSE}]

\* TwoAllowedTypes that reads strict-mode: a strict run allows feat only.
TwoAllowedTypesStrict(in) ==
  IF in.strictMode THEN << <<"f", "e", "a", "t">> >>
  ELSE AllowedTypesArray(in.allowedTypes)

\* run: the allow-list a run derives from its inputs.
TwoAllowedTypes(in) == AllowedTypesArray(in.allowedTypes)

\* Slot with one set of lists for all the runs.
SlotShared(r) == 1

\* The locals hasInvalidCommits, invalidCommits and validCommits of a call:
\* each call of the validation function has its own.
Slot(r) == r

TwoInit ==
  /\ prog = [r \in Runs |-> "index"]
  /\ inputs \in [Runs -> TwoInputSets]
  /\ context \in [Runs -> TwoContexts]
  /\ pc = [r \in Runs |-> "run"]
  /\ targetBranch = [r \in Runs |-> ""]
  /\ allowedTypesArray = [r \in Runs |-> <<>>]
  /\ pr = [r \in Runs |-> NoPr]
  /\ commits = [r \in Runs |-> <<>>]
  /\ processed = [r \in Runs |-> 0]
  /\ hasInvalidCommits = [r \in Runs |-> FALSE]
  /\ invalidCommits = [r \in Runs |-> <<>>]
  /\ validCommits = [r \in Runs |-> <<>>]
  /\ outputs = [r \in Runs |-> <<>>]
  /\ failed = [r \in Runs |-> <<>>]
  /\ comments = [r \in Runs |-> <<>>]
  /\ stderr = <<>>
  /\ exitCode = -1

\* run(), from the reading of the inputs to the first await.
TwoRun(r) ==
  /\ pc[r] = "run"
  /\ targetBranch' = [targetBranch EXCEPT ![r] =
                        IF inputs[r].targetBranch = "" THEN "main"
                        ELSE inputs[r].targetBranch]
  /\ allowedTypesArray' =
       [allowedTypesArray EXCEPT ![r] = TwoAllowedTypes(inputs[r])]
  /\ pc' = [pc EXCEPT ![r] =
              IF /\ context[r].eventName = "push"
                 /\ context[r].ref = "refs/heads/" \o targetBranch'[r]
              THEN "compareCommits"
              ELSE IF context[r].eventName = "pull_request"
              THEN "pullsGet"
              ELSE "done"]
  /\ UNCHANGED <<prog, inputs, context, pr, commits, processed,
                 hasInvalidCommits, invalidCommits, validCommits, outputs,
                 failed, comments, stderr, exitCode>>

\* validatePRMergeCommit: await octokit.rest.pulls.get
TwoPullsGet(r) ==
  /\ pc[r] = "pullsGet"
  /\ pr' = [pr EXCEPT ![r] = [base |-> targetBranch[r], title |-> <<>>]]
  /\ pc' = [pc EXCEPT ![r] = "listCommits"]
  /\ UNCHANGED <<prog, inputs, context, targetBranch, allowedTypesArray,
                 commits, processed, hasInvalidCommits, invalidCommits,
                 validCommits, outputs, failed, comments, stderr, exitCode>>

\* await compareCommits / listCommits: the commit list of the run; the
\* locals of the call are created when the list has commits.
TwoReceiveCommits(r) ==
  /\ pc[r] \in {"compareCommits", "listCommits"}
  /\ \E list \in TwoCommitLists :
       /\ commits' = [commits EXCEPT ![r] = list]
       /\ IF Len(list) = 0
          THEN /\ outputs' = [outputs EXCEPT ![r] = NoCommitsOutputs(@)]
               /\ pc' = [pc EXCEPT ![r] = "done"]
          ELSE /\ outputs' = outputs
               /\ pc' = [pc EXCEPT ![r] =
                           IF pc[r] = "compareCommits" THEN "mergeLoop"
                           ELSE "prLoop"]
  /\ UNCHANGED <<prog, inputs, context, targetBranch, allowedTypesArray, pr,
                 processed, hasInvalidCommits, invalidCommits, validCommits,
                 failed, comments, stderr, exitCode>>

\* One iteration of the validation loop of the run.
TwoLoopStep(r) ==
  /\ pc[r] \in {"mergeLoop", "prLoop"}
  /\ processed[r] < Len(commits[r])
  /\ LET commit == commits[r][processed[r] + 1]
         s      == Slot(r)
     IN  IF ParserThrows(commit.message)
         THEN /\ failed' = [failed EXCEPT ![r] =
                              Append(@, ActionFailed(ParserErrorMessage))]
              /\ pc' = [pc EXCEPT ![r] = "done"]
              /\ UNCHANGED <<processed, hasInvalidCommits, invalidCommits,
                             validCommits>>
         ELSE LET acc == LoopBody(commit, allowedTypesArray[r],
                                  [hasInvalid |-> hasInvalidCommits[s],
                                   invalid    |-> invalidCommits[s],
                                   valid      |-> validCommits[s]])
              IN  /\ hasInvalidCommits' =
                       [hasInvalidCommits EXCEPT ![s] = acc.hasInvalid]
                  /\ invalidCommits' = [invalidCommits EXCEPT ![s] = acc.invalid]
                  /\ validCommits' = [validCommits EXCEPT ![s] = acc.valid]
                  /\ processed' = [processed EXCEPT ![r] = @ + 1]
                  /\ UNCHANGED <<failed, pc>>
  /\ UNCHANGED <<prog, inputs, context, targetBranch, allowedTypesArray, pr,
                 commits, outputs, comments, stderr, exitCode>>

\* After the loop: the outputs, and for a push the result.
TwoOutputs(r) ==
  /\ pc[r] \in {"mergeLoop", "prLoop"}
  /\ processed[r] = Len(commits[r])
  /\ outputs' = [outputs EXCEPT ![r] =
                   VerdictOutputs(@, hasInvalidCommits[Slot(r)],
                                  Len(commits[r]), invalidCommits[Slot(r)])]
  /\ IF pc[r] = "mergeLoop"
     THEN /\ failed' = [failed EXCEPT ![r] =
                          IF hasInvalidCommits[Slot(r)]
                          THEN Append(@, MergeFailedMessage) ELSE @]
          /\ pc' = [pc EXCEPT ![r] = "done"]
     ELSE /\ failed' = failed
          /\ pc' = [pc EXCEPT ![r] =
                      IF hasInvalidCommits[Slot(r)] \/ inputs[r].commentOnSuccess
                      THEN "createComment" ELSE "done"]
  /\ UNCHANGED <<prog, inputs, context, targetBranch, allowedTypesArray, pr,
                 commits, processed, hasInvalidCommits, invalidCommits,
                 validCommits, comments, stderr, exitCode>>

\* validatePRMergeCommit: await createComment, then the result.
TwoCreateComment(r) ==
  /\ pc[r] = "createComment"
  /\ comments' = [comments EXCEPT ![r] =
                    Append(@, IF hasInvalidCommits[Slot(r)]
                              THEN "failure" ELSE "success")]
  /\ failed' = [failed EXCEPT ![r] =
                  IF hasInvalidCommits[Slot(r)]
                  THEN Append(@, PrFailedMessage) ELSE @]
  /\ pc' = [pc EXCEPT ![r] = "done"]
  /\ UNCHANGED <<prog, inputs, context, targetBranch, allowedTypesArray, pr,
                 commits, processed, hasInvalidCommits, invalidCommits,
                 validCommits, outputs, stderr, exitCode>>

TwoNext ==
  \E r \in Runs :
    \/ TwoRun(r)
    \/ TwoPullsGet(r)
    \/ TwoReceiveCommits(r)
    \/ TwoLoopStep(r)
    \/ TwoOutputs(r)
    \/ TwoCreateComment(r)

SpecTwo == TwoInit /\ [][TwoNext]_vars

\* ----------------------------------------------------------- specification

Next ==
  \/ Run
  \/ CompareCommits
  \/ MergeLoop
  \/ MergeOutputs
  \/ PullsGet
  \/ ListCommits
  \/ PrLoop
  \/ PrOutputs
  \/ CreateComment
  \/ TitleRun
  \/ TitlePullsGet
  \/ TitleFormatComment
  \/ TitleTypeComment
  \/ TitleSuccessComment
  \/ ScriptGitLog
  \/ ScriptLoop
  \/ ScriptFinish

Spec == Init /\ [][Next]_vars

\* An awaited createComment call settles: it resolves or it rejects, and the
\* run goes on from there.
SpecLive ==
  /\ Spec
  /\ WF_vars(CreateComment)
  /\ WF_vars(TitleFormatComment)
  /\ WF_vars(TitleTypeComment)

\* ------------------------------------------------------------------ claims

\* The message's header has no type or no subject.
FormatFailure(message) ==
  LET parsed == ParseSync(message)
  IN  parsed.type = <<>> \/ parsed.subject = <<>>

\* The message's header has a type and a subject, and the type is none of
\* the allowed types.
TypeFailure(message, allowedTypes) ==
  /\ ~FormatFailure(message)
  /\ \A i \in 1..Len(allowedTypes) : allowedTypes[i] # ParseSync(message).type

\* The positions of the input sequence the loop has classified.
Classified == 1..processed

\* The run validates a commit list with the parser's sync().
CommitListRun == prog = "index" /\ Len(commits) > 0

\* The run has validated a PR title.
TitleRunValidated == prog = "title" /\ processed = 1

InInvalid(k) == \E j \in 1..Len(invalidCommits) : invalidCommits[j].sha = Sha(k)
InValid(k)   == \E j \in 1..Len(validCommits) : validCommits[j].sha = Sha(k)

FormatReasonText == "PR title does not follow conventional commit format"

JoinedDefault ==
  <<"f", "e", "a", "t", ",", " ", "f", "i", "x", ",", " ", "d", "o", "c",
    "s", ",", " ", "s", "t", "y", "l", "e", ",", " ", "r", "e", "f", "a", "c",
    "t", "o", "r", ",", " ", "p", "e", "r", "f", ",", " ", "t", "e", "s", "t",
    ",", " ", "b", "u", "i", "l", "d", ",", " ", "c", "i", ",", " ", "c", "h",
    "o", "r", "e", ",", " ", "r", "e", "v", "e", "r", "t">>
JoinedFeatFix == <<"f", "e", "a", "t", ",", " ", "f", "i", "x">>
JoinedSpaced ==
  <<"f", "e", "a", "t", ",", " ", "f", "i", "x", ",", " ", "d", "o", "c", "s">>
JoinedBlank == <<",", " ">>
JoinedAllowList ==
  IF inputs.allowedTypes = AllowedFeatFix THEN JoinedFeatFix
  ELSE IF inputs.allowedTypes = AllowedSpaced THEN JoinedSpaced
  ELSE IF inputs.allowedTypes = AllowedBlank THEN JoinedBlank
  ELSE JoinedDefault

\* The reason of a disallowed type names the type and the joined allow-list.
NamesTypeAndAllowList(reason, message) ==
  /\ reason.type = ParseSync(message).type
  /\ reason.allowed = JoinedAllowList

InvalidPositions ==
  {k \in Classified :
     \/ FormatFailure(commits[k].message)
     \/ TypeFailure(commits[k].message, allowedTypesArray)}

\* C3: the valid output is "true" if and only if no processed message was
\* classified invalid, that is if and only if the invalid list is empty; the
\* script exits with 0 after its loop if and only if its invalid list is
\* empty.
C3_ValidIffNoInvalid ==
  /\ (prog = "index" /\ "valid" \in DOMAIN outputs) =>
       /\ processed = Len(commits)
       /\ outputs["valid"] = "true" <=> invalidCommits = <<>>
       /\ outputs["valid"] = "true" <=> InvalidPositions = {}
  /\ (prog = "title" /\ "valid" \in DOMAIN outputs) =>
       /\ outputs["valid"] = "true" <=> "invalid-commits" \notin DOMAIN outputs
       /\ outputs["valid"] = "true" <=>
            ~(\/ FormatFailure(pr.title)
              \/ TypeFailure(pr.title, allowedTypesArray))
  /\ (prog = "script" /\ pc = "done" /\ processed > 0) =>
       (exitCode = 0 <=> invalidCommits = <<>>)

\* C3 witness: a run over two commits ended with valid = "false" because
\* exactly one of them is in the invalid list.
C3_Witness ==
  /\ prog = "index"
  /\ pc = "done"
  /\ "valid" \in DOMAIN outputs
  /\ outputs["valid"] = "false"
  /\ Len(commits) = 2
  /\ Len(invalidCommits) = 1

\* C4 as stated: a run that has ended with a verdict has set the
\* total-commits output to the number of messages processed.
C4_Original ==
  (pc = "done" /\ "valid" \in DOMAIN outputs) =>
    /\ "total-commits" \in DOMAIN outputs
    /\ outputs["total-commits"] = ToString(processed)

\* C5 as stated: validating an empty commit list outputs valid = "true",
\* total-commits = "0" and an empty invalid-commits list, and does not fail
\* the run.
C5_Original ==
  (prog = "index" /\ pc = "done" /\ "valid" \in DOMAIN outputs
     /\ Len(commits) = 0) =>
    /\ outputs["valid"] = "true"
    /\ outputs["total-commits"] = "0"
    /\ "invalid-commits" \in DOMAIN outputs
    /\ outputs["invalid-commits"] = <<>>
    /\ failed = <<>>

UpperSeq == <<"A", "B", "C", "D", "E", "F", "G", "H", "I", "J", "K", "L", "M",
              "N", "O", "P", "Q", "R", "S", "T", "U", "V", "W", "X", "Y", "Z">>
LowerSeq == <<"a", "b", "c", "d", "e", "f", "g", "h", "i", "j", "k", "l", "m",
              "n", "o", "p", "q", "r", "s", "t", "u", "v", "w", "x", "y", "z">>

\* The text in lower case.
ToLower(s) ==
  [i \in 1..Len(s) |->
     IF s[i] \in Upper
     THEN LowerSeq[CHOOSE n \in 1..Len(UpperSeq) : UpperSeq[n] = s[i]]
     ELSE s[i]]

\* C6 as stated: the parsed type is in lower case, and a message whose type
\* matches an allowed type up to letter case is classified valid.
C6_Original ==
  /\ CommitListRun =>
       \A k \in Classified :
         LET parsed == ParseSync(commits[k].message)
         IN  ~FormatFailure(commits[k].message) =>
               /\ parsed.type = ToLower(parsed.type)
               /\ (\E i \in 1..Len(allowedTypesArray) :
                     allowedTypesArray[i] = ToLower(parsed.type)) => InValid(k)
  /\ (TitleRunValidated /\ ~FormatFailure(pr.title)) =>
       ((\E i \in 1..Len(allowedTypesArray) :
           allowedTypesArray[i] = ToLower(ParseSync(pr.title).type))
          => outputs["valid"] = "true")

\* The position in the input sequence of the commit with this sha.
PositionOf(sha) == CHOOSE k \in 1..Len(commits) : Sha(k) = sha

\* C7: the invalid list holds every invalid message classified so far
\* exactly once, and no other, in the order of the input sequence; the
\* invalid-commits output is that list.
C7_InvalidOrderPreserved ==
  CommitListRun =>
    /\ \A k \in InvalidPositions :
         Cardinality({j \in 1..Len(invalidCommits) :
                        invalidCommits[j].sha = Sha(k)}) = 1
    /\ \A j \in 1..Len(invalidCommits) :
         \E k \in InvalidPositions : invalidCommits[j].sha = Sha(k)
    /\ \A i, j \in 1..Len(invalidCommits) :
         i < j => PositionOf(invalidCommits[i].sha)
                    < PositionOf(invalidCommits[j].sha)
    /\ "invalid-commits" \in DOMAIN outputs =>
         outputs["invalid-commits"] = invalidCommits

\* C7 witness: a run has ended with two invalid commits, the first of the
\* input first in the invalid-commits output.
C7_Witness ==
  /\ CommitListRun
  /\ pc = "done"
  /\ "invalid-commits" \in DOMAIN outputs
  /\ Len(outputs["invalid-commits"]) = 2
  /\ outputs["invalid-commits"][1].sha = Sha(1)
  /\ outputs["invalid-commits"][2].sha = Sha(2)
  /\ "reason" \in DOMAIN outputs["invalid-commits"][1]
  /\ "reason" \notin DOMAIN outputs["invalid-commits"][2]

\* C8 as stated: once a message of a commit list is classified invalid, the
\* run still classifies every message and reports the length of the input
\* as the total.
C8_Original ==
  (prog = "index" /\ pc = "done" /\ invalidCommits # <<>>) =>
    /\ processed = Len(commits)
    /\ "total-commits" \in DOMAIN outputs
    /\ outputs["total-commits"] = ToString(Len(commits))

ActionFailedApi ==
  [text |-> "Action failed: API Error", arg |-> <<>>]
ActionFailedToken ==
  [text |-> "Action failed: Input required and not supplied: token",
   arg  |-> <<>>]

\* The run of the action has ended and its PR lookup was rejected.
PrLookupRejected ==
  /\ prog \in {"index", "title"}
  /\ pc = "done"
  /\ inputs.token
  /\ context.eventName = "pull_request"
  /\ pr = NoPr

\* The run of the action has ended and its createComment was rejected.
CommentRejected ==
  /\ prog \in {"index", "title"}
  /\ context.eventName = "pull_request"
  /\ pc = "done"
  /\ "valid" \in DOMAIN outputs
  /\ processed > 0
  /\ outputs["valid"] = "false" \/ inputs.commentOnSuccess
  /\ comments = <<>>

\* The script has ended because git log failed.
ScriptGitLogFailed ==
  prog = "script" /\ pc = "done" /\ stderr = <<ScriptErrorHeadline>>

\* The exit code of a failed validation of the script.
ScriptValidationFailedExit == 1

\* C9 as stated: an I/O failure is reported as "Action failed: <message>",
\* with no valid = "false" verdict and, in the script, no exit code of a
\* failed validation.
C9_Original ==
  /\ (\E i \in 1..Len(failed) : failed[i] \in {ActionFailedApi, ActionFailedToken})
       => ~("valid" \in DOMAIN outputs /\ outputs["valid"] = "false")
  /\ ScriptGitLogFailed => exitCode # ScriptValidationFailedExit

\* C9 (as amended): a missing token, a rejected PR lookup and a rejected
\* createComment each end run with the single failure "Action failed:
\* <message>", never with the failure of a failed validation.  A failure
\* before the verdict leaves every output unset; a rejected createComment
\* leaves the outputs of the verdict, where valid is "false" exactly when a
\* message was invalid.  The script reports a failed git log on stderr and
\* exits with 1, as it does after a failed validation.
C9_IoFailureReported ==
  /\ (prog \in {"index", "title"} /\ pc = "done" /\ ~inputs.token) =>
       failed = <<ActionFailedToken>> /\ outputs = <<>>
  /\ PrLookupRejected => failed = <<ActionFailedApi>> /\ outputs = <<>>
  /\ CommentRejected =>
       /\ failed = <<ActionFailedApi>>
       /\ prog = "index" => (outputs["valid"] = "false" <=> InvalidPositions # {})
       /\ prog = "title" =>
            (outputs["valid"] = "false" <=>
               \/ FormatFailure(pr.title)
               \/ TypeFailure(pr.title, allowedTypesArray))
  /\ (\E i \in 1..Len(failed) : failed[i] \in {ActionFailedApi, ActionFailedToken})
       => Len(failed) = 1
  /\ ScriptGitLogFailed => exitCode = 1 /\ processed = 0

\* C9 witness: createComment was rejected after a verdict with an invalid
\* commit.
C9_Witness ==
  /\ CommentRejected
  /\ prog = "index"
  /\ outputs["valid"] = "false"
  /\ failed = <<ActionFailedApi>>

\* The text of a message before its first newline.
UpToNewline(message) ==
  LET nl == {i \in 1..Len(message) : message[i] = "\n"}
  IN  IF nl = {} THEN message ELSE SubSeq(message, 1, SetMin(nl) - 1)

InputsRead == prog \in {"index", "title"} /\ inputs.token /\ pc # "run"

\* No message has been classified valid.
NothingValid ==
  /\ validCommits = <<>>
  /\ ~("valid" \in DOMAIN outputs /\ outputs["valid"] = "true" /\ processed > 0)

DefaultTypes ==
  << <<"f", "e", "a", "t">>, <<"f", "i", "x">>, <<"d", "o", "c", "s">>,
     <<"s", "t", "y", "l", "e">>, <<"r", "e", "f", "a", "c", "t", "o", "r">>,
     <<"p", "e", "r", "f">>, <<"t", "e", "s", "t">>,
     <<"b", "u", "i", "l", "d">>, <<"c", "i">>, <<"c", "h", "o", "r", "e">>,
     <<"r", "e", "v", "e", "r", "t">> >>

\* C12: once the inputs are read, an unset allowed-types gives exactly the
\* allow-list feat, fix, docs, style, refactor, perf, test, build, ci,
\* chore, revert, and an unset target-branch gives the target branch main;
\* a configured input is used instead of the default.
C12_DefaultsWhenUnset ==
  InputsRead =>
    /\ inputs.allowedTypes = AllowedUnset => allowedTypesArray = DefaultTypes
    /\ inputs.allowedTypes = AllowedFeatFix =>
         allowedTypesArray = << <<"f", "e", "a", "t">>, <<"f", "i", "x">> >>
    /\ inputs.targetBranch = "" => targetBranch = "main"
    /\ inputs.targetBranch # "" => targetBranch = inputs.targetBranch

\* C12 witness: with both inputs unset a push to refs/heads/main was
\* validated and its commit "docs: y" is valid under the default list.
C12_Witness ==
  /\ prog = "index"
  /\ inputs.allowedTypes = AllowedUnset
  /\ inputs.targetBranch = ""
  /\ context = [eventName |-> "push", ref |-> "refs/heads/main"]
  /\ pc = "done"
  /\ Len(commits) = 1
  /\ commits[1].message = MsgDocs
  /\ InValid(1)
  /\ outputs["valid"] = "true"

\* A header read by the grammar type(scope)!: subject, with the scope and
\* the "!" optional: whether it matches, and its parts.
GrammarHeader(h) ==
  LET nonWord  == {i \in 1..Len(h) : h[i] \notin WordChars}
      p        == IF nonWord = {} THEN Len(h) + 1 ELSE SetMin(nonWord)
      nonScope == {i \in (p + 1)..Len(h) : h[i] \notin ScopeChars}
      hasScope == /\ p <= Len(h)
                  /\ h[p] = "("
                  /\ nonScope # {}
                  /\ h[SetMin(nonScope)] = ")"
      q        == IF hasScope THEN SetMin(nonScope) + 1 ELSE p
      breaking == q <= Len(h) /\ h[q] = "!"
      r        == IF breaking THEN q + 1 ELSE q
  IN  [matches  |-> /\ p > 1
                    /\ r + 1 <= Len(h)
                    /\ h[r] = ":"
                    /\ h[r + 1] = " "
                    /\ Trim(SubSeq(h, r + 2, Len(h))) # <<>>,
       type     |-> SubSeq(h, 1, p - 1),
       scope    |-> IF hasScope THEN SubSeq(h, p + 1, q - 2) ELSE <<>>,
       breaking |-> breaking,
       subject  |-> Trim(SubSeq(h, r + 2, Len(h)))]

\* The parse of the message yields the parts the grammar reads, the type in
\* lower case.
ParsedAsGrammar(message) ==
  LET g      == GrammarHeader(UpToNewline(message))
      parsed == ParseSync(message)
  IN  /\ parsed.type = ToLower(g.type)
      /\ parsed.scope = g.scope
      /\ parsed.subject = g.subject

\* C13 as stated: every header that matches type(scope)!: subject is parsed
\* into that type in lower case, that scope and that subject, and the
\* message is valid when the type is in the allow-list.
C13_Original ==
  /\ CommitListRun =>
       \A k \in Classified :
         LET g == GrammarHeader(UpToNewline(commits[k].message))
         IN  g.matches =>
               /\ ParsedAsGrammar(commits[k].message)
               /\ Includes(allowedTypesArray, ToLower(g.type)) => InValid(k)
  /\ (TitleRunValidated /\ GrammarHeader(pr.title).matches) =>
       /\ ParsedAsGrammar(pr.title)
       /\ Includes(allowedTypesArray, ToLower(GrammarHeader(pr.title).type))
            => outputs["valid"] = "true"

\* The header holds no ": " separator.
NoSeparator(h) == ~\E i \in 1..(Len(h) - 1) : h[i] = ":" /\ h[i + 1] = " "

\* C14 as stated: every message whose header holds no ": " separator, the
\* empty message and a bare word included, is classified invalid for its
\* format.
C14_Original ==
  /\ (prog = "index" /\ pc = "done" /\ Len(commits) > 0) =>
       \A k \in 1..Len(commits) :
         NoSeparator(UpToNewline(commits[k].message)) =>
           \E j \in 1..Len(invalidCommits) :
             /\ invalidCommits[j].sha = Sha(k)
             /\ "reason" \notin DOMAIN invalidCommits[j]
  /\ (prog = "title" /\ pc = "done" /\ pr # NoPr /\ pr.base = targetBranch
        /\ NoSeparator(pr.title)) =>
       /\ "valid" \in DOMAIN outputs
       /\ outputs["valid"] = "false"
       /\ outputs["invalid-commits"] =
            <<[title |-> pr.title, reason |-> TitleFormatReason]>>

\* Only white space follows the first colon of the header.
BlankSubject(h) ==
  /\ IndexOf(h, ":") > 0
  /\ Trim(SubSeq(h, IndexOf(h, ":") + 1, Len(h))) = <<>>

\* C15 as stated: a message whose header has only white space after the
\* colon is classified invalid for its format and never valid.
C15_Original ==
  /\ CommitListRun =>
       \A k \in Classified :
         BlankSubject(UpToNewline(commits[k].message)) =>
           /\ ~InValid(k)
           /\ \E j \in 1..Len(invalidCommits) :
                /\ invalidCommits[j].sha = Sha(k)
                /\ "reason" \notin DOMAIN invalidCommits[j]
  /\ (TitleRunValidated /\ BlankSubject(pr.title)) =>
       outputs["valid"] = "false"

\* The first line of the message, taken alone, is a conventional header
\* with an allowed type.
FirstLineConforms(message, allowedTypes) ==
  LET h == MatchHeader(UpToNewline(message))
  IN  /\ h.type # <<>>
      /\ h.subject # <<>>
      /\ Includes(allowedTypes, h.type)

OuterScopeHeader(h) ==
  LET nonWord == {i \in 1..Len(h) : h[i] \notin WordChars}
      p       == IF nonWord = {} THEN Len(h) + 1 ELSE SetMin(nonWord)
      seps    == {i \in 1..(Len(h) - 1) : h[i] = ":" /\ h[i + 1] = " "}
      c       == IF seps = {} THEN 0 ELSE SetMin(seps)
  IN  [matches |-> /\ p > 1
                   /\ c > p + 1
                   /\ h[p] = "("
                   /\ h[c - 1] = ")"
                   /\ c + 1 < Len(h),
       type    |-> SubSeq(h, 1, p - 1),
       scope   |-> SubSeq(h, p + 1, c - 2),
       subject |-> SubSeq(h, c + 2, Len(h))]

\* The text holds a parenthesis.
HasParenthesis(s) == \E i \in 1..Len(s) : s[i] \in {"(", ")"}

\* C17 as stated: a header whose scope holds nested parentheses parses, the
\* scope being the text between the outer parentheses, and is not a format
\* failure.
C17_Original ==
  CommitListRun =>
    \A k \in Classified :
      LET g      == OuterScopeHeader(UpToNewline(commits[k].message))
          parsed == ParseSync(commits[k].message)
      IN  (g.matches /\ HasParenthesis(g.scope)) =>
            /\ parsed.type = g.type
            /\ parsed.scope = g.scope
            /\ parsed.subject = g.subject
            /\ ~\E j \in 1..Len(invalidCommits) :
                  /\ invalidCommits[j].sha = Sha(k)
                  /\ "reason" \notin DOMAIN invalidCommits[j]

\* C18 as stated: the script, when git log has answered, exits with 0 if
\* every commit line is a conventional commit (no line at all included),
\* and with 1 otherwise.
C18_Original ==
  (prog = "script" /\ pc = "done" /\ ~ScriptGitLogFailed) =>
    /\ exitCode \in {0, ScriptValidationFailedExit}
    /\ exitCode = 0 <=>
         \A k \in 1..Len(commits) :
           ~FormatFailure(UpToNewline(commits[k].message))

\* C19: once pulls.get has returned a pull request whose base branch is not
\* the target branch, the run is over: no message is classified, no commit
\* list is fetched, no output is set, no comment is posted and the run is
\* not marked failed.
C19_OtherBaseSkipped ==
  (prog \in {"index", "title"} /\ pr # NoPr /\ pr.base # targetBranch) =>
    /\ pc = "done"
    /\ processed = 0
    /\ commits = <<>>
    /\ invalidCommits = <<>>
    /\ validCommits = <<>>
    /\ outputs = <<>>
    /\ comments = <<>>
    /\ failed = <<>>

\* C19 witness: a pull request on dev, with the target branch main and
\* comment-on-success set, ended the run of the commit-list action.
C19_Witness ==
  /\ prog = "index"
  /\ context.eventName = "pull_request"
  /\ inputs.commentOnSuccess
  /\ targetBranch = "main"
  /\ pr.base = "dev"
  /\ pc = "done"
  /\ outputs = <<>>

\* The event is a push to the target branch.
PushToTarget ==
  context.eventName = "push" /\ context.ref = "refs/heads/" \o targetBranch

\* The run ended without a call of the commit or PR API, without an output,
\* without a comment and without a failure.
Skipped ==
  /\ pc = "done"
  /\ pr = NoPr
  /\ commits = <<>>
  /\ processed = 0
  /\ outputs = <<>>
  /\ comments = <<>>
  /\ failed = <<>>

\* C20 as stated: a run of the action is skipped exactly when its event is
\* neither a push to the target branch nor a pull request.
C20_Original ==
  InputsRead =>
    (Skipped <=> ~(PushToTarget \/ context.eventName = "pull_request"))

\* C20 (as amended): the commit-list action validates on exactly a push to
\* the target branch and a pull request, the PR-title action on exactly a
\* pull request; on every other event, a push to the target branch included
\* for the PR-title action, the run calls no commit or PR API, sets no
\* output, posts no comment and is not marked failed.
C20_OnlyValidatedEvents ==
  /\ (InputsRead /\ prog = "index") =>
       (Skipped <=> ~(PushToTarget \/ context.eventName = "pull_request"))
  /\ (InputsRead /\ prog = "title") =>
       (Skipped <=> context.eventName # "pull_request")

\* C20 witness: the commit-list action, with the target branch main, was
\* run for a push to refs/heads/dev and skipped it.
C20_Witness ==
  /\ prog = "index"
  /\ inputs.token
  /\ targetBranch = "main"
  /\ context = [eventName |-> "push", ref |-> "refs/heads/dev"]
  /\ Skipped

\* C21: every entry of the allow-list is free of surrounding white space
\* once the inputs are read; the configuration "feat, fix, docs " gives
\* exactly the allow-list feat, fix, docs, under which a classified message
\* with a type and a subject is valid exactly when its type is one of the
\* three.
C21_AllowedTypesTrimmed ==
  InputsRead =>
    /\ \A i \in 1..Len(allowedTypesArray) :
         allowedTypesArray[i] = Trim(allowedTypesArray[i])
    /\ inputs.allowedTypes = AllowedSpaced =>
         /\ allowedTypesArray =
              << <<"f", "e", "a", "t">>, <<"f", "i", "x">>,
                 <<"d", "o", "c", "s">> >>
         /\ CommitListRun =>
              \A k \in Classified :
                ~FormatFailure(commits[k].message) =>
                  (InValid(k) <=>
                     ParseSync(commits[k].message).type \in
                       {<<"f", "e", "a", "t">>, <<"f", "i", "x">>,
                        <<"d", "o", "c", "s">>})
         /\ (TitleRunValidated /\ ~FormatFailure(pr.title)) =>
              (outputs["valid"] = "true" <=>
                 ParseSync(pr.title).type \in
                   {<<"f", "e", "a", "t">>, <<"f", "i", "x">>,
                    <<"d", "o", "c", "s">>})

\* C21 witness: under the configuration "feat, fix, docs " the commits
\* "fix: z" and "docs: y", whose types are configured with white space
\* around them, are both valid.
C21_Witness ==
  /\ prog = "index"
  /\ inputs.allowedTypes = AllowedSpaced
  /\ processed = 2
  /\ commits[1].message = MsgFooter
  /\ commits[2].message = MsgDocs
  /\ InValid(1)
  /\ InValid(2)

\* C22 as stated: a run that has ended with the valid output set has also
\* set invalid-commits and total-commits, and the invalid-commits list is
\* empty exactly when valid is "true".
C22_Original ==
  (prog \in {"index", "title"} /\ pc = "done" /\ "valid" \in DOMAIN outputs) =>
    /\ "invalid-commits" \in DOMAIN outputs
    /\ "total-commits" \in DOMAIN outputs
    /\ Len(outputs["invalid-commits"]) = 0 <=> outputs["valid"] = "true"

\* The outputs of the commit-list validation of the one-element sequence
\* <<message>> under the allow-list.
ListOfOneOutputs(message, allowedTypes) ==
  LET acc == LoopBody([sha |-> Sha(1), message |-> message], allowedTypes,
                      [hasInvalid |-> FALSE, invalid |-> <<>>, valid |-> <<>>])
  IN  VerdictOutputs(<<>>, acc.hasInvalid, 1, acc.invalid)

\* The reasons of the entries of an invalid list, <<>> for an entry without
\* a reason.
Reasons(invalid) ==
  [j \in 1..Len(invalid) |->
     IF "reason" \in DOMAIN invalid[j] THEN invalid[j].reason ELSE <<>>]

\* C23 as stated: the validation of a PR title ends with the outputs of the
\* commit-list validation of the one-element list of that title: the same
\* valid, the total 1, and an invalid list of the same length with the same
\* reasons.
C23_Original ==
  (prog = "title" /\ pc = "done" /\ "valid" \in DOMAIN outputs) =>
    LET list == ListOfOneOutputs(pr.title, allowedTypesArray)
    IN  /\ outputs["valid"] = list["valid"]
        /\ "total-commits" \in DOMAIN outputs
        /\ outputs["total-commits"] = list["total-commits"]
        /\ "invalid-commits" \in DOMAIN outputs
        /\ Reasons(outputs["invalid-commits"]) = Reasons(list["invalid-commits"])

\* The invalid list of a commit list under an allow-list, as a function of
\* the two alone.
RECURSIVE ExpectedInvalid(_, _)
ExpectedInvalid(list, allowedTypes) ==
  IF list = <<>> THEN <<>>
  ELSE LET commit == list[Len(list)]
           rest   == ExpectedInvalid(SubSeq(list, 1, Len(list) - 1), allowedTypes)
       IN  IF FormatFailure(commit.message)
           THEN Append(rest, [sha         |-> commit.sha,
                              message     |-> UpToNewline(commit.message),
                              fullMessage |-> commit.message])
           ELSE IF TypeFailure(commit.message, allowedTypes)
           THEN Append(rest, [sha         |-> commit.sha,
                              message     |-> UpToNewline(commit.message),
                              fullMessage |-> commit.message,
                              reason      |->
                                [text    |-> "Type is not allowed. Allowed types:",
                                 type    |-> ParseSync(commit.message).type,
                                 allowed |-> JoinedAllowList]])
           ELSE rest

\* The verdict of a commit list under an allow-list, as a function of the
\* two alone.
ExpectedVerdict(list, allowedTypes) ==
  IF list = <<>>
  THEN ("valid" :> "true") @@ ("total-commits" :> "0")
  ELSE ("valid" :> IF ExpectedInvalid(list, allowedTypes) = <<>>
                   THEN "true" ELSE "false")
       @@ ("total-commits" :> ToString(Len(list)))
       @@ ("invalid-commits" :> ExpectedInvalid(list, allowedTypes))

\* C24: the verdict of a commit-list run is a function of its commit list
\* and its allow-list alone: whenever the valid output is set, the outputs
\* are that function's value, and during the loop the invalid list is that
\* function of the commits classified so far; so two runs over the same
\* list and allow-list end with the same valid, total and invalid list.
C24_VerdictIsFunctionOfInput ==
  prog = "index" =>
    /\ "valid" \in DOMAIN outputs =>
         outputs = ExpectedVerdict(commits, allowedTypesArray)
    /\ invalidCommits =
         ExpectedInvalid(SubSeq(commits, 1, processed), allowedTypesArray)
    /\ hasInvalidCommits <=> invalidCommits # <<>>

\* C24 witness: a run over two commits, one of them with a disallowed type,
\* has ended with the verdict the function gives.
C24_Witness ==
  /\ prog = "index"
  /\ pc = "done"
  /\ Len(commits) = 2
  /\ commits[1].message = MsgFeat
  /\ commits[2].message = MsgFeatUpper
  /\ "valid" \in DOMAIN outputs
  /\ outputs = ExpectedVerdict(commits, allowedTypesArray)
  /\ Len(outputs["invalid-commits"]) = 1

\* The run was ended by a rejected API call.
ApiRejected == \E i \in 1..Len(failed) : failed[i] = ActionFailedApi

\* A pull-request run of one of the two actions has ended with a verdict.
PrVerdictReached ==
  /\ prog \in {"index", "title"}
  /\ context.eventName = "pull_request"
  /\ pc = "done"
  /\ "valid" \in DOMAIN outputs

C29_Original ==
  (prog \in {"index", "title"} /\ pc = "done" /\ "valid" \in DOMAIN outputs
     /\ outputs["valid"] = "true") => failed = <<>>

\* C29 (as amended): a run that has set valid = "true" is never marked
\* failed for its validation: its setFailed calls are none, or the single
\* "Action failed: API Error" of a rejected success comment, which needs
\* comment-on-success set and leaves no comment.
C29_ValidRunFailsOnlyByIo ==
  (prog \in {"index", "title"} /\ "valid" \in DOMAIN outputs
     /\ outputs["valid"] = "true") =>
    /\ failed \in {<<>>, <<ActionFailedApi>>}
    /\ failed = <<ActionFailedApi>> =>
         /\ inputs.commentOnSuccess
         /\ context.eventName = "pull_request"
         /\ comments = <<>>
         /\ pc = "done"

\* C29 witness: a pull-request run over a valid commit has posted its
\* success comment and ended without a failure.
C29_Witness ==
  /\ prog = "index"
  /\ pc = "done"
  /\ Len(commits) = 1
  /\ "valid" \in DOMAIN outputs
  /\ outputs["valid"] = "true"
  /\ comments = <<"success">>
  /\ failed = <<>>

\* C30: in every state of a commit-list run the valid list and the invalid
\* list together hold each message classified so far exactly once, so their
\* lengths add up to the number classified; once the outputs are set for a
\* list with commits, every commit is classified and the lengths add up to
\* the total.
C30_ListsPartitionProcessed ==
  prog = "index" =>
    /\ Len(validCommits) + Len(invalidCommits) = processed
    /\ \A k \in Classified : InValid(k) # InInvalid(k)
    /\ \A j \in 1..Len(validCommits) :
         \E k \in Classified : validCommits[j].sha = Sha(k)
    /\ \A j \in 1..Len(invalidCommits) :
         \E k \in Classified : invalidCommits[j].sha = Sha(k)
    /\ ("total-commits" \in DOMAIN outputs /\ Len(commits) > 0) =>
         /\ processed = Len(commits)
         /\ outputs["total-commits"] =
              ToString(Len(validCommits) + Len(invalidCommits))

\* C30 witness: in the middle of the loop one commit of two is classified,
\* and it is in the valid list alone.
C30_Witness ==
  /\ prog = "index"
  /\ pc \in {"mergeLoop", "prLoop"}
  /\ Len(commits) = 2
  /\ processed = 1
  /\ Len(validCommits) = 1
  /\ invalidCommits = <<>>

\* C28: once the valid output is "false", the run is eventually marked
\* failed, whether the comment that follows is posted or rejected.
C28_InvalidLeadsToFailed ==
  ("valid" \in DOMAIN outputs /\ outputs["valid"] = "false") ~> (failed # <<>>)

\* C28 witness: the PR-title run set valid = "false", posted the failure
\* comment and was then marked failed for the title's format.
C28_Witness ==
  /\ prog = "title"
  /\ pc = "done"
  /\ "valid" \in DOMAIN outputs
  /\ outputs["valid"] = "false"
  /\ comments = <<"failure">>
  /\ failed = <<TitleFormatFailedMessage(pr.title)>>

\* The locals of a run that validates the first n commits of a list alone.
RECURSIVE AloneAcc(_, _, _)
AloneAcc(list, n, allowed) ==
  IF n = 0
  THEN [hasInvalid |-> FALSE, invalid |-> <<>>, valid |-> <<>>]
  ELSE LoopBody(list[n], allowed, AloneAcc(list, n - 1, allowed))

\* The outputs of a run that validates a list alone.
AloneOutputs(list, allowed) ==
  IF Len(list) = 0
  THEN NoCommitsOutputs(<<>>)
  ELSE LET acc == AloneAcc(list, Len(list), allowed)
       IN  VerdictOutputs(<<>>, acc.hasInvalid, Len(list), acc.invalid)

StrictModeTwins ==
  /\ inputs[1].strictMode # inputs[2].strictMode
  /\ inputs[1] = [inputs[2] EXCEPT !.strictMode = inputs[1].strictMode]
  /\ context[1] = context[2]
  /\ commits[1] = commits[2]

====
